---- MODULE Spec2Model ----
(***************************************************************************)
(* directory-tree-maker.py: the visibility/depth decision engine, the tree *)
(* walk, the skipped-subtree scan, the report computation, the rendering   *)
(* of the two reports and path compression.                                *)
(*                                                                         *)
(* Strings are sequences of one-character strings, so that glob matching,  *)
(* case folding, joining and sorting are computed character by character.  *)
(* A path is the sequence of its segment names below the root; the root is  *)
(* the empty path.  Optional[int] is a set: {} is None, {n} is the int n.   *)
(***************************************************************************)
EXTENDS Integers, Sequences, FiniteSets, TLC

\* ------------------------------------------------------------------ bounds
\* Deepest level of the file tree below the root.
TreeDepth == 3
\* Largest configured max_depth (0 = unlimited).
MaxDepthCfg == 2
\* Most segments of a path given to _compress_path on its own.
MaxSegments == 7
\* Longest settings_override list.
MaxOverrides == 2
\* Largest configured max_depth_measure_limit (0 = unlimited).
MaxMeasureLimit == 1

\* ------------------------------------------------------------ characters
\* Code points, the order Python compares str by.
Ord(c) ==
    CASE c = "#" -> 35 [] c = "*" -> 42 [] c = "." -> 46 [] c = "/" -> 47
      [] c = "?" -> 63 [] c = "D" -> 68 [] c = "H" -> 72 [] c = "d" -> 100
      [] c = "h" -> 104 [] c = "l" -> 108 [] c = "r" -> 114

LowerChar(c) == CASE c = "D" -> "d" [] c = "H" -> "h" [] OTHER -> c

\* str.lower()
Lower(s) == [i \in DOMAIN s |-> LowerChar(s[i])]

\* Python's s < t on str: lexicographic by code point, a proper prefix first.
RECURSIVE StrLess(_, _)
StrLess(s, t) ==
    IF t = <<>> THEN FALSE
    ELSE IF s = <<>> THEN TRUE
    ELSE IF Head(s) = Head(t) THEN StrLess(Tail(s), Tail(t))
    ELSE Ord(Head(s)) < Ord(Head(t))

\* fnmatch.fnmatchcase(s, p) for patterns built of literals, "*" and "?"
\* ("*" and "?" also match "/"; no pattern of the model holds a "[").
RECURSIVE fnmatchcase(_, _)
fnmatchcase(s, p) ==
    IF p = <<>> THEN s = <<>>
    ELSE IF Head(p) = "*"
        THEN fnmatchcase(s, Tail(p)) \/ (s # <<>> /\ fnmatchcase(Tail(s), p))
    ELSE IF Head(p) = "?"
        THEN s # <<>> /\ fnmatchcase(Tail(s), Tail(p))
    ELSE s # <<>> /\ Head(s) = Head(p) /\ fnmatchcase(Tail(s), Tail(p))

\* str.rstrip("/")
RECURSIVE rstrip_slash(_)
rstrip_slash(s) ==
    IF s # <<>> /\ s[Len(s)] = "/" THEN rstrip_slash(SubSeq(s, 1, Len(s) - 1))
    ELSE s

\* ------------------------------------------------------------- file tree
n_d == <<"d">>
n_doth == <<".", "h">>
n_h == <<"h">>
n_H == <<"H">>
n_l == <<"l">>
n_dotd == <<".", "d">>
Names == {n_d, n_doth, n_h, n_H, n_l, n_dotd}

\* d, .h and .d are directories, h and H regular files, l a symlink to a
\* directory.
KindOfName(n) ==
    IF n \in {n_d, n_doth, n_dotd} THEN "dir"
    ELSE IF n = n_l THEN "link" ELSE "file"

\* The names a directory holds: the root holds d, .h, h, H and l, a
\* directory d holds d, .h, .d and h, a directory .h holds h, a directory
\* .d is empty.
Holds(dirpath) ==
    IF dirpath = <<>> THEN {n_d, n_doth, n_h, n_H, n_l}
    ELSE IF dirpath[Len(dirpath)] = n_d THEN {n_d, n_doth, n_dotd, n_h}
    ELSE IF dirpath[Len(dirpath)] = n_doth THEN {n_h}
    ELSE {}

RECURSIVE Exists(_)
Exists(p) ==
    IF p = <<>> THEN TRUE
    ELSE LET par == SubSeq(p, 1, Len(p) - 1)
         IN  /\ Len(p) <= TreeDepth
             /\ Exists(par)
             /\ p[Len(p)] \in Holds(par)

\* The tree: every path that exists, level by level.
RECURSIVE Level(_)
Level(n) ==
    IF n = 0 THEN {<<>>}
    ELSE {Append(p, m) : p \in Level(n - 1), m \in Names}
Nodes == {p \in UNION {Level(n) : n \in 0..TreeDepth} : Exists(p)}

\* Path.name
NameOf(p) == p[Len(p)]
\* Path.parent
ParentOf(p) == SubSeq(p, 1, Len(p) - 1)
Kind(p) == IF p = <<>> THEN "dir" ELSE KindOfName(NameOf(p))
\* Path.is_dir() follows symlinks; Path.is_symlink(); Path.is_file()
is_dir(p) == Kind(p) \in {"dir", "link"}
is_symlink(p) == Kind(p) = "link"
is_file(p) == Kind(p) = "file"
RealDir(p) == is_dir(p) /\ ~is_symlink(p)

\* The entries of directory p.
ChildrenOf(p) ==
    IF Len(p) < TreeDepth THEN {Append(p, n) : n \in Holds(p)} ELSE {}

\* p lies strictly beneath a.
Beneath(p, a) == Len(p) > Len(a) /\ SubSeq(p, 1, Len(a)) = a

\* _to_posix_rel: the segments joined by "/", "" for the root.
RECURSIVE _to_posix_rel(_)
_to_posix_rel(p) ==
    IF p = <<>> THEN <<>>
    ELSE IF Len(p) = 1 THEN p[1]
    ELSE _to_posix_rel(ParentOf(p)) \o <<"/">> \o NameOf(p)

\* The dictionary key of a directory: rel + "/".
Key(p) == _to_posix_rel(p) \o <<"/">>

\* --------------------------------------------------- configuration inputs
p_D == <<"D">>
p_doth == <<".", "h">>
p_starh == <<"*", "h">>
p_dslash == <<"d", "/">>
p_comment == <<"#", "d">>

\* exclude_patterns: none, or a name in the other case and a hidden name.
ExcludeChoices == {<<>>, <<p_D, p_doth>>}
\* The lines of the root's .gitignore (no file, or use_gitignore off, reads
\* as no lines): a comment, a directory pattern with its slash, a glob.
GitignoreChoices == {<<>>, <<p_comment, p_dslash, p_starh>>}
\* "d/" matches the root's d alone (as a directory, by its path and slash),
\* "*h" every .h and h, and H when case is folded.
OverridePatterns == {p_dslash, p_starh}
OverrideDepths == {-1, 0, 1}
Overrides == [pattern : OverridePatterns, depth : OverrideDepths]
OverrideChoices == UNION {[1..n -> Overrides] : n \in 0..MaxOverrides}

VARIABLES
    \* configuration (module globals set in the configuration section)
    max_depth, only_dirs, case_sensitive_sort, list_dirs_first,
    show_hidden, exclude_patterns, settings_override,
    \* the root's .gitignore, as its lines
    gitignore_file,
    \* module globals set by main()
    _GITIGNORE, _EXCLUDES,
    \* position of main()
    pc,
    \* the activation records of walk(), innermost last
    stack,
    \* _walk_tree's lines, and for each line the path it renders
    lines, lineOf,
    \* the directories walk() was called on
    descended,
    \* Reports
    _depth_cutoffs, _rule_excluded_candidates, depth_pruned, rule_excluded,
    \* _depth_limit_value_for_reports() as _compute_reports and the renderers
    \* read it (None until then)
    depth_limit_value,
    \* a second run over the unchanged tree: its number, the first run's lines
    run, firstLines,
    \* what _render_depth_pruned and _render_rule_excluded return
    dp_report, re_report,
    \* _compress_path called on its own: its argument and what it returns
    compress_arg, compress_ret

config == <<max_depth, only_dirs, case_sensitive_sort, list_dirs_first,
            show_hidden, exclude_patterns, settings_override,
            gitignore_file>>
reports == <<_depth_cutoffs, _rule_excluded_candidates, depth_pruned,
             rule_excluded, depth_limit_value>>
render == <<dp_report, re_report>>
compress == <<compress_arg, compress_ret>>
vars == <<config, _GITIGNORE, _EXCLUDES, pc, stack, lines, lineOf, descended,
          reports, run, firstLines, render, compress>>

\* ---------------------------------------------------------------- helpers
None == {}
Some(n) == {n}
Val(o) == CHOOSE n \in o : TRUE

_sort_key(name) == IF case_sensitive_sort THEN name ELSE Lower(name)

\* POSIX: hidden is a leading dot (the os.name == "nt" branch is not taken).
_is_hidden(p) == NameOf(p)[1] = "."

_matches_one(n, r, pat, isdir) ==
    LET p == IF case_sensitive_sort THEN pat ELSE Lower(pat)
    IN  \/ fnmatchcase(n, p)
        \/ fnmatchcase(r, p)
        \/ (isdir /\ fnmatchcase(r \o <<"/">>, p))

_matches_any(name, rel, patterns, isdir) ==
    LET n == IF case_sensitive_sort THEN name ELSE Lower(name)
        r == IF case_sensitive_sort THEN rel ELSE Lower(rel)
    IN  \E i \in DOMAIN patterns : _matches_one(n, r, patterns[i], isdir)

\* One line of .gitignore: skipped when blank or a comment, else stripped of
\* one trailing slash.
RECURSIVE _read_gitignore_lines(_)
_read_gitignore_lines(ls) ==
    IF ls = <<>> THEN <<>>
    ELSE LET s == Head(ls)
             rest == _read_gitignore_lines(Tail(ls))
         IN  IF s = <<>> \/ s[1] = "#" THEN rest
             ELSE IF s[Len(s)] = "/" THEN <<SubSeq(s, 1, Len(s) - 1)>> \o rest
             ELSE <<s>> \o rest

_read_gitignore == _read_gitignore_lines(gitignore_file)

\* Of the configured max_depth_measure_limit.
_depth_limit_value_for_reports(max_depth_measure_limit) ==
    IF max_depth_measure_limit < 0 THEN Some(25)
    ELSE IF max_depth_measure_limit = 0 THEN None
    ELSE Some(max_depth_measure_limit)

_effective_global_remaining(depth_from_root) ==
    IF max_depth = 0 THEN None
    ELSE IF max_depth < 0 THEN None
    ELSE Some(max_depth - depth_from_root)

_remaining_from_override(ov_depth) ==
    IF ov_depth < 0 THEN Some(0)
    ELSE IF ov_depth = 0 THEN None
    ELSE Some(ov_depth)

\* The depth of the first override, in configured order, whose pattern
\* matches; None when none does.
RECURSIVE _override_scan(_, _, _, _)
_override_scan(ovs, name, rel, isdir) ==
    IF ovs = <<>> THEN None
    ELSE IF _matches_any(name, rel, <<Head(ovs).pattern>>, isdir)
        THEN Some(Head(ovs).depth)
    ELSE _override_scan(Tail(ovs), name, rel, isdir)

_override_for(path, rel, isdir) ==
    _override_scan(settings_override, NameOf(path), rel, isdir)

\* _is_visible without its last check, the override of depth -1.
_is_visible_keeps_minus1(path, rel) ==
    LET hidden == _is_hidden(path)
        ov == _override_for(path, rel, is_dir(path))
    IN  IF hidden /\ ~show_hidden THEN FALSE
        ELSE IF ~(hidden /\ show_hidden)
                /\ _matches_any(NameOf(path), rel, _EXCLUDES, is_dir(path))
            THEN ov # None /\ Val(ov) >= 0
        ELSE TRUE

\* _is_visible without the resurrection of an excluded entry.
_is_visible_no_resurrection(path, rel) ==
    LET hidden == _is_hidden(path)
        ov == _override_for(path, rel, is_dir(path))
    IN  IF hidden /\ ~show_hidden THEN FALSE
        ELSE IF ~(hidden /\ show_hidden)
                /\ _matches_any(NameOf(path), rel, _EXCLUDES, is_dir(path))
            THEN FALSE
        ELSE IF ov = Some(-1) THEN FALSE
        ELSE TRUE

_is_visible(path, rel) ==
    LET hidden == _is_hidden(path)
        ov == _override_for(path, rel, is_dir(path))
    IN  IF hidden /\ ~show_hidden THEN FALSE
        ELSE IF ~(hidden /\ show_hidden)
                /\ _matches_any(NameOf(path), rel, _EXCLUDES, is_dir(path))
            THEN ov # None /\ Val(ov) >= 0
        ELSE IF ov = Some(-1) THEN FALSE
        ELSE TRUE

\* list.sort(key=...): stable, ascending by key.
RECURSIVE InsertByKey(_, _)
InsertByKey(sorted, x) ==
    IF sorted = <<>> THEN <<x>>
    ELSE IF StrLess(_sort_key(NameOf(x)), _sort_key(NameOf(Head(sorted))))
        THEN <<x>> \o sorted
    ELSE <<Head(sorted)>> \o InsertByKey(Tail(sorted), x)

RECURSIVE SortByKey(_)
SortByKey(s) ==
    IF s = <<>> THEN <<>>
    ELSE InsertByKey(SortByKey(SubSeq(s, 1, Len(s) - 1)), s[Len(s)])

\* The orders in which iterdir() may return a directory's children: the
\* children by ascending name, and the same sequence reversed.
RECURSIVE AscendingSeq(_)
AscendingSeq(S) ==
    IF S = {} THEN <<>>
    ELSE LET m == CHOOSE x \in S : \A y \in S \ {x} : StrLess(NameOf(x), NameOf(y))
         IN  <<m>> \o AscendingSeq(S \ {m})
Reverse(s) == [i \in DOMAIN s |-> s[Len(s) + 1 - i]]
Listings(p) ==
    {AscendingSeq(ChildrenOf(p)), Reverse(AscendingSeq(ChildrenOf(p)))}

\* _iter_entries on the listing iterdir() returned.
_iter_entries(listing) ==
    IF list_dirs_first
    THEN SortByKey(SelectSeq(listing, RealDir))
         \o SortByKey(SelectSeq(listing, LAMBDA p : ~RealDir(p)))
    ELSE SortByKey(listing)

\* ------------------------------------------------------------ dictionaries
\* A dict is the sequence of its <<key, value>> items in insertion order.
DictHas(d, k) == \E i \in DOMAIN d : d[i][1] = k
DictGet(d, k) == d[CHOOSE i \in DOMAIN d : d[i][1] = k][2]
\* d[k] = v
DictSet(d, k, v) ==
    IF DictHas(d, k)
    THEN [i \in DOMAIN d |-> IF d[i][1] = k THEN <<k, v>> ELSE d[i]]
    ELSE Append(d, <<k, v>>)

\* sorted(d.items(), key=lambda kv: kv[0].lower()): stable.
RECURSIVE InsertItem(_, _)
InsertItem(sorted, x) ==
    IF sorted = <<>> THEN <<x>>
    ELSE IF StrLess(Lower(x[1]), Lower(Head(sorted)[1])) THEN <<x>> \o sorted
    ELSE <<Head(sorted)>> \o InsertItem(Tail(sorted), x)

RECURSIVE SortItems(_)
SortItems(d) ==
    IF d = <<>> THEN <<>>
    ELSE InsertItem(SortItems(SubSeq(d, 1, Len(d) - 1)), d[Len(d)])

\* ------------------------------------------------------------- formatting
Digit(n) ==
    CASE n = 0 -> "0" [] n = 1 -> "1" [] n = 2 -> "2" [] n = 3 -> "3"
      [] n = 4 -> "4" [] n = 5 -> "5" [] n = 6 -> "6" [] n = 7 -> "7"
      [] n = 8 -> "8" [] n = 9 -> "9"

\* str(n) of a natural number: its decimal digits.
RECURSIVE Str(_)
Str(n) == IF n < 10 THEN <<Digit(n)>> ELSE Str(n \div 10) \o <<Digit(n % 10)>>

\* f"{n:,}": the decimal digits in groups of three.
RECURSIVE _fmt_int(_)
_fmt_int(n) ==
    IF n < 1000 THEN Str(n)
    ELSE _fmt_int(n \div 1000)
         \o <<",", Digit((n \div 100) % 10), Digit((n \div 10) % 10),
              Digit(n % 10)>>

\* str.split("/")
RECURSIVE split_slash(_, _)
split_slash(s, cur) ==
    IF s = <<>> THEN <<cur>>
    ELSE IF Head(s) = "/" THEN <<cur>> \o split_slash(Tail(s), <<>>)
    ELSE split_slash(Tail(s), Append(cur, Head(s)))

\* "/".join(parts)
RECURSIVE join_slash(_)
join_slash(parts) ==
    IF parts = <<>> THEN <<>>
    ELSE IF Len(parts) = 1 THEN parts[1]
    ELSE parts[1] \o <<"/">> \o join_slash(Tail(parts))

\* _compress_path keeping the first two and the last two segments.
_compress_path_first_two(rel_with_slash) ==
    LET rel == rstrip_slash(rel_with_slash)
        parts == split_slash(rel, <<>>)
        omitted == Len(parts) - 5
    IN  IF rel = <<>> THEN <<".", "/">>
        ELSE IF Len(parts) <= 5 THEN rel \o <<"/">>
        ELSE join_slash(SubSeq(parts, 1, 2))
             \o <<"/", ".", ".", ".", "(">> \o Str(omitted)
             \o <<")", ".", ".", ".", "/">>
             \o join_slash(SubSeq(parts, Len(parts) - 1, Len(parts)))
             \o <<"/">>

_compress_path(rel_with_slash) ==
    LET rel == rstrip_slash(rel_with_slash)
        parts == split_slash(rel, <<>>)
        omitted == Len(parts) - 5
    IN  IF rel = <<>> THEN <<".", "/">>
        ELSE IF Len(parts) <= 5 THEN rel \o <<"/">>
        ELSE join_slash(SubSeq(parts, 1, 3))
             \o <<"/", ".", ".", ".", "(">> \o Str(omitted)
             \o <<")", ".", ".", ".", "/">>
             \o join_slash(SubSeq(parts, Len(parts) - 1, Len(parts)))
             \o <<"/">>

\* Nothing rendered yet.
NoReport == [kind |-> "none", rows |-> <<>>, folders |-> <<>>, files |-> <<>>]

\* ------------------------------------------------------------------- walk
R_HIDDEN == "Hide hidden"
R_GITIGNORE == "gitignore list"
R_EXCLUSION == "Exclusion list"
R_OVERRIDE == "Override (-1)"
NoReason == ""

\* StagedReason with the override as the last branch of the chain.
StagedReason_override_last(e) ==
    LET rel == _to_posix_rel(e)
    IN  IF _is_hidden(e) /\ ~show_hidden THEN R_HIDDEN
        ELSE IF ~(_is_hidden(e) /\ show_hidden)
                /\ _matches_any(NameOf(e), rel, _read_gitignore, TRUE)
            THEN R_GITIGNORE
        ELSE IF _matches_any(NameOf(e), rel, exclude_patterns, TRUE)
            THEN R_EXCLUSION
        ELSE IF _override_for(e, rel, TRUE) = Some(-1) THEN R_OVERRIDE
        ELSE NoReason

\* StagedReason without the hidden-policy branch.
StagedReason_no_hidden(e) ==
    LET rel == _to_posix_rel(e)
        first == IF ~(_is_hidden(e) /\ show_hidden)
                    /\ _matches_any(NameOf(e), rel, _read_gitignore, TRUE)
                     THEN R_GITIGNORE
                 ELSE IF _matches_any(NameOf(e), rel, exclude_patterns, TRUE)
                     THEN R_EXCLUSION
                 ELSE NoReason
    IN  IF _override_for(e, rel, TRUE) = Some(-1) THEN R_OVERRIDE ELSE first

\* The reason staged for directory e (lines 431-441); NoReason when none.
StagedReason(e) ==
    LET rel == _to_posix_rel(e)
        first == IF _is_hidden(e) /\ ~show_hidden THEN R_HIDDEN
                 ELSE IF ~(_is_hidden(e) /\ show_hidden)
                         /\ _matches_any(NameOf(e), rel, _read_gitignore, TRUE)
                     THEN R_GITIGNORE
                 ELSE IF _matches_any(NameOf(e), rel, exclude_patterns, TRUE)
                     THEN R_EXCLUSION
                 ELSE NoReason
    IN  IF _override_for(e, rel, TRUE) = Some(-1) THEN R_OVERRIDE ELSE first

\* The first loop of walk(): stage the rule-excluded candidates of entries.
RECURSIVE StageCandidates(_, _)
StageCandidates(entries, cands) ==
    IF entries = <<>> THEN cands
    ELSE LET e == Head(entries)
             next == IF RealDir(e) /\ StagedReason(e) # NoReason
                     THEN DictSet(cands, Key(e), StagedReason(e))
                     ELSE cands
         IN  StageCandidates(Tail(entries), next)

\* The second loop of walk(): the entries printed and traversed.
VisibleEntry(e) ==
    /\ _is_visible(e, _to_posix_rel(e))
    /\ ~(only_dirs /\ ~is_dir(e))
VisibleOf(entries) == SelectSeq(entries, VisibleEntry)

\* The activation record of walk(curr, prefix, depth_from_root, rem_global,
\* rem_override) once its two loops over entries have run.
Frame(curr, prefix, depth_from_root, rem_global, rem_override, entries) ==
    [curr |-> curr, prefix |-> prefix, depth_from_root |-> depth_from_root,
     rem_global |-> rem_global, rem_override |-> rem_override,
     visible |-> VisibleOf(entries), idx |-> 1]

T_LAST == "+-- "
T_TEE == "|-- "
P_LAST == "    "
P_TEE == "|   "
RootName == <<"r">>

\* What walk() does with the visible directory p met at depth_from_root
\* (lines 474-497): skip it, stage a depth cutoff, or call walk on it.
Budget(p, depth_from_root) ==
    LET ovd == _override_for(p, _to_posix_rel(p), TRUE)
        rem_ov == IF ovd # None THEN _remaining_from_override(Val(ovd)) ELSE None
        eff_global == _effective_global_remaining(depth_from_root + 1)
    IN  IF ovd = Some(-1) THEN [kind |-> "skip"]
        ELSE IF rem_ov # None
            THEN IF Val(rem_ov) <= 0 THEN [kind |-> "skip"]
                 ELSE [kind |-> "call", rem_global |-> None,
                       rem_override |-> Some(Val(rem_ov) - 1)]
        ELSE IF eff_global = None
            THEN [kind |-> "call", rem_global |-> None, rem_override |-> None]
        ELSE IF Val(eff_global) <= 0 THEN [kind |-> "cutoff"]
        ELSE [kind |-> "call", rem_global |-> Some(Val(eff_global) - 1),
              rem_override |-> None]

Top == stack[Len(stack)]
SetTopIdx(i) == [stack EXCEPT ![Len(stack)].idx = i]

\* The state as main() starts, for a configuration whose list_dirs_first
\* is drawn from orders and whose settings_override from overrides.
InitWith(orders, overrides) ==
    /\ max_depth \in 0..MaxDepthCfg
    /\ only_dirs \in BOOLEAN
    /\ case_sensitive_sort \in BOOLEAN
    /\ list_dirs_first \in orders
    /\ show_hidden \in BOOLEAN
    /\ exclude_patterns \in ExcludeChoices
    /\ settings_override \in overrides
    /\ gitignore_file \in GitignoreChoices
    /\ _GITIGNORE = <<>>
    /\ _EXCLUDES = <<>>
    /\ pc = "main"
    /\ stack = <<>>
    /\ lines = <<>>
    /\ lineOf = <<>>
    /\ descended = {}
    /\ _depth_cutoffs = <<>>
    /\ _rule_excluded_candidates = <<>>
    /\ depth_pruned = <<>>
    /\ rule_excluded = <<>>
    /\ depth_limit_value = None
    /\ run = 1
    /\ firstLines = <<>>
    /\ dp_report = NoReport
    /\ re_report = NoReport
    /\ compress_arg = <<>>
    /\ compress_ret = <<>>

\* Every configuration with the default list_dirs_first.
Init == InitWith({TRUE}, OverrideChoices)

\* Return from every activation whose loop over visible has ended.
RECURSIVE Unwind(_)
Unwind(st) ==
    IF st # <<>> /\ st[Len(st)].idx > Len(st[Len(st)].visible)
    THEN Unwind(SubSeq(st, 1, Len(st) - 1))
    ELSE st

\* main(), lines 713-716: the merged patterns.
Main ==
    /\ pc = "main"
    /\ _GITIGNORE' = _read_gitignore
    /\ _EXCLUDES' = exclude_patterns \o _read_gitignore
    /\ pc' = "walk_tree"
    /\ UNCHANGED <<config, stack, lines, lineOf, descended, reports, run,
                   firstLines, render, compress>>

\* main(), line 721, and _walk_tree up to its call walk(root, "", 0,
\* start_rem, None): a fresh Reports, the root line, and the call's two
\* loops over the root's entries.
WalkTree ==
    /\ pc = "walk_tree"
    /\ \E listing \in Listings(<<>>) :
         LET entries == _iter_entries(listing)
             st == Unwind(<<Frame(<<>>, <<>>, 0, _effective_global_remaining(0),
                                  None, entries)>>)
         IN  /\ stack' = st
             /\ pc' = IF st = <<>> THEN "walked" ELSE "walk"
             /\ _rule_excluded_candidates' = StageCandidates(entries, <<>>)
    /\ lines' = <<[prefix |-> <<>>, connector |-> "",
                   display_name |-> RootName \o <<"/">>]>>
    /\ lineOf' = <<(<<>>)>>
    /\ descended' = {<<>>}
    /\ _depth_cutoffs' = <<>>
    /\ depth_pruned' = <<>>
    /\ rule_excluded' = <<>>
    /\ depth_limit_value' = None
    /\ dp_report' = NoReport
    /\ re_report' = NoReport
    /\ UNCHANGED <<config, _GITIGNORE, _EXCLUDES, run, firstLines, compress>>

\* One iteration of walk()'s loop over visible (lines 456-497).  A recursive
\* call runs the callee's two loops over its entries; an activation whose
\* loop has ended returns, and the outermost return ends _walk_tree.
VisitChild ==
    /\ pc = "walk"
    /\ LET f == Top
           p == f.visible[f.idx]
           is_last == f.idx = Len(f.visible)
           isdir == RealDir(p)
           child_prefix == Append(f.prefix, IF is_last THEN P_LAST ELSE P_TEE)
           b == IF isdir THEN Budget(p, f.depth_from_root) ELSE [kind |-> "skip"]
       IN  /\ lines' = Append(lines,
                  [prefix |-> f.prefix,
                   connector |-> IF is_last THEN T_LAST ELSE T_TEE,
                   display_name |-> IF isdir THEN NameOf(p) \o <<"/">>
                                    ELSE NameOf(p)])
           /\ lineOf' = Append(lineOf, p)
           /\ IF b.kind = "call"
              THEN \E listing \in Listings(p) :
                     LET entries == _iter_entries(listing)
                         st == Unwind(Append(SetTopIdx(f.idx + 1),
                                  Frame(p, child_prefix, f.depth_from_root + 1,
                                        b.rem_global, b.rem_override, entries)))
                     IN  /\ stack' = st
                         /\ pc' = IF st = <<>> THEN "walked" ELSE "walk"
                         /\ _rule_excluded_candidates' =
                                StageCandidates(entries, _rule_excluded_candidates)
                         /\ descended' = descended \cup {p}
                         /\ UNCHANGED _depth_cutoffs
              ELSE LET st == Unwind(SetTopIdx(f.idx + 1))
                   IN  /\ stack' = st
                       /\ pc' = IF st = <<>> THEN "walked" ELSE "walk"
                       /\ _depth_cutoffs' =
                            IF b.kind = "cutoff"
                            THEN Append(_depth_cutoffs,
                                        <<Key(p), f.depth_from_root + 1>>)
                            ELSE _depth_cutoffs
                       /\ UNCHANGED <<_rule_excluded_candidates, descended>>
    /\ UNCHANGED <<config, _GITIGNORE, _EXCLUDES, depth_pruned, rule_excluded,
                   depth_limit_value, run, firstLines, render, compress>>

\* ------------------------------------------------------------------- scan
Max(a, b) == IF a >= b THEN a ELSE b

\* One order of a directory's children for the scan's iterdir(); what the
\* scan returns does not depend on it.
ScanListing(node) == CHOOSE l \in Listings(node) : TRUE

\* The for loop of _scan_stats over the children es of a node at depth d;
\* counted is the set of the entries that folders and files have counted.
RECURSIVE ScanChildren(_, _, _)
ScanChildren(es, d, st) ==
    IF es = <<>> THEN st
    ELSE LET e == Head(es)
             next ==
               IF ~_is_visible(e, _to_posix_rel(e)) THEN st
               ELSE IF RealDir(e)
                   THEN [dq |-> Append(st.dq, <<e, d + 1>>),
                         max_rel_depth |-> Max(st.max_rel_depth, d + 1),
                         folders |-> st.folders + 1, files |-> st.files,
                         counted |-> st.counted \cup {e}]
               ELSE IF is_file(e)
                   THEN [st EXCEPT !.files = st.files + 1,
                                   !.counted = st.counted \cup {e}]
               ELSE st
         IN  ScanChildren(Tail(es), d, next)

\* The while loop of _scan_stats.
RECURSIVE ScanLoop(_, _)
ScanLoop(st, extra_limit) ==
    IF st.dq = <<>> THEN st
    ELSE LET node == Head(st.dq)[1]
             d == Head(st.dq)[2]
             popped == [st EXCEPT !.dq = Tail(st.dq)]
         IN  IF extra_limit # None /\ d > Val(extra_limit)
             THEN ScanLoop(popped, extra_limit)
             ELSE ScanLoop(ScanChildren(ScanListing(node), d, popped), extra_limit)

\* The scan of start, run to its end.
ScanFrom(start, extra_limit) ==
    ScanLoop([dq |-> <<(<<start, 0>>)>>, max_rel_depth |-> 0,
              folders |-> 0, files |-> 0, counted |-> {}], extra_limit)

\* <<max_relative_depth, folders_count, files_count>>
_scan_stats(start, extra_limit) ==
    LET st == ScanFrom(start, extra_limit)
    IN  <<st.max_rel_depth, st.folders, st.files>>

\* ---------------------------------------------------------------- reports
\* s.strip("/")
RECURSIVE lstrip_slash(_)
lstrip_slash(s) == IF s # <<>> /\ s[1] = "/" THEN lstrip_slash(Tail(s)) ELSE s
strip_slash(s) == lstrip_slash(rstrip_slash(s))

\* root / Path(PurePosixPath(rel.strip("/"))), as a path below the root.
PathOfKey(rel) ==
    LET s == strip_slash(rel)
    IN  IF s = <<>> THEN <<>> ELSE split_slash(s, <<>>)

\* DepthPrunedOf recording every cutoff, whatever its skipped levels.
RECURSIVE DepthPrunedOf_every_cutoff(_, _, _)
DepthPrunedOf_every_cutoff(items, extra_limit, dp) ==
    IF items = <<>> THEN dp
    ELSE LET rel == Head(items)[1]
             cutoff_abs_depth == Head(items)[2]
             stats == _scan_stats(PathOfKey(rel), extra_limit)
             total_depth_abs == cutoff_abs_depth + stats[1]
         IN  DepthPrunedOf_every_cutoff(Tail(items), extra_limit,
                 DictSet(dp, rel, <<total_depth_abs,
                                    total_depth_abs - cutoff_abs_depth,
                                    stats[2], stats[3]>>))

\* The depth-pruned loop of _compute_reports (lines 516-525).
RECURSIVE DepthPrunedOf(_, _, _)
DepthPrunedOf(items, extra_limit, dp) ==
    IF items = <<>> THEN dp
    ELSE LET rel == Head(items)[1]
             cutoff_abs_depth == Head(items)[2]
             p == PathOfKey(rel)
             stats == _scan_stats(p, extra_limit)
             total_depth_abs == cutoff_abs_depth + stats[1]
             skipped_levels == total_depth_abs - cutoff_abs_depth
             next == IF Exists(p) /\ is_dir(p) /\ skipped_levels > 0
                     THEN DictSet(dp, rel, <<total_depth_abs, skipped_levels,
                                             stats[2], stats[3]>>)
                     ELSE dp
         IN  DepthPrunedOf(Tail(items), extra_limit, next)

\* main() with show_reports on: _compute_reports, for a configured
\* max_depth_measure_limit.
ComputeReports ==
    /\ pc = "walked"
    /\ \E max_depth_measure_limit \in 0..MaxMeasureLimit :
         LET limit == _depth_limit_value_for_reports(max_depth_measure_limit)
         IN  /\ depth_limit_value' = limit
             /\ depth_pruned' = DepthPrunedOf(_depth_cutoffs, limit, depth_pruned)
    /\ _GITIGNORE' = _read_gitignore
    /\ _EXCLUDES' = exclude_patterns \o _read_gitignore
    /\ rule_excluded' = SortItems(_rule_excluded_candidates)
    /\ pc' = "reported"
    /\ UNCHANGED <<config, stack, lines, lineOf, descended, _depth_cutoffs,
                   _rule_excluded_candidates, run, firstLines, render,
                   compress>>

\* items[:4]
Head4(items) == SubSeq(items, 1, IF Len(items) < 4 THEN Len(items) ELSE 4)

\* The totals loop of _render_depth_pruned (lines 578-580):
\* <<skipped_folders_total, skipped_files_total>>.
RECURSIVE DepthPrunedTotals(_)
DepthPrunedTotals(items) ==
    IF items = <<>> THEN <<0, 0>>
    ELSE LET rest == DepthPrunedTotals(Tail(items))
             rec == Head(items)[2]
         IN  <<rec[3] + rest[1], rec[4] + rest[2]>>

\* The right-hand cell of a depth-pruned row (line 585).
DepthPrunedRight(rec) ==
    [total_depth_abs |-> Str(rec[1]), skipped_levels |-> Str(rec[2]),
     unit |-> IF rec[2] = 1 THEN "level" ELSE "levels"]

_render_depth_pruned ==
    IF max_depth = 0 THEN NoReport
    ELSE IF depth_pruned = <<>>
        THEN [kind |-> "message", rows |-> <<>>, folders |-> <<>>,
              files |-> <<>>]
    ELSE LET compress_rule == max_depth >= 6
             items == SortItems(depth_pruned)
             top == Head4(items)
             totals == DepthPrunedTotals(items)
         IN  [kind |-> "table",
              rows |-> [i \in DOMAIN top |->
                          <<IF compress_rule THEN _compress_path(top[i][1])
                            ELSE top[i][1],
                            DepthPrunedRight(top[i][2])>>],
              folders |-> _fmt_int(totals[1]),
              files |-> _fmt_int(totals[2])]

\* RuleExcludedTotals over the rows shown only.
RECURSIVE RuleExcludedTotals_shown(_, _)
RuleExcludedTotals_shown(items, extra_limit) ==
    IF items = <<>> THEN <<0, 0>>
    ELSE IF Len(items) > 4
        THEN RuleExcludedTotals_shown(Head4(items), extra_limit)
    ELSE LET rest == RuleExcludedTotals_shown(Tail(items), extra_limit)
             q == PathOfKey(Head(items)[1])
             stats == _scan_stats(q, extra_limit)
         IN  IF Exists(q) /\ is_dir(q)
             THEN <<stats[2] + rest[1], stats[3] + rest[2]>>
             ELSE rest

\* The totals loop of _render_rule_excluded (lines 636-641):
\* <<skipped_folders_total, skipped_files_total>>.
RECURSIVE RuleExcludedTotals(_, _)
RuleExcludedTotals(items, extra_limit) ==
    IF items = <<>> THEN <<0, 0>>
    ELSE LET rest == RuleExcludedTotals(Tail(items), extra_limit)
             q == PathOfKey(Head(items)[1])
             stats == _scan_stats(q, extra_limit)
         IN  IF Exists(q) /\ is_dir(q)
             THEN <<stats[2] + rest[1], stats[3] + rest[2]>>
             ELSE rest

_render_rule_excluded ==
    IF rule_excluded = <<>>
    THEN [kind |-> "message", rows |-> <<>>, folders |-> <<>>, files |-> <<>>]
    ELSE LET items == rule_excluded
             top == Head4(items)
             totals == RuleExcludedTotals(items, depth_limit_value)
         IN  [kind |-> "table",
              rows |-> [i \in DOMAIN top |->
                          <<IF Len(split_slash(rstrip_slash(top[i][1]), <<>>)) >= 6
                            THEN _compress_path(top[i][1]) ELSE top[i][1],
                            top[i][2]>>],
              folders |-> _fmt_int(totals[1]),
              files |-> _fmt_int(totals[2])]

\* main() with show_reports on, lines 733-737: the two reports rendered.
RenderReports ==
    /\ pc = "reported"
    /\ dp_report' = _render_depth_pruned
    /\ re_report' = _render_rule_excluded
    /\ pc' = "rendered"
    /\ UNCHANGED <<config, _GITIGNORE, _EXCLUDES, stack, lines, lineOf,
                   descended, reports, run, firstLines, compress>>

\* main() with show_reports off: the tree only.
SkipReports ==
    /\ pc = "walked"
    /\ pc' = "done"
    /\ UNCHANGED <<config, _GITIGNORE, _EXCLUDES, stack, lines, lineOf,
                   descended, reports, run, firstLines, render, compress>>

Next ==
    \/ Main
    \/ WalkTree
    \/ VisitChild
    \/ ComputeReports
    \/ RenderReports
    \/ SkipReports

Spec == Init /\ [][Next]_vars

\* ------------------------------------------------------- a second run
\* The program is run again on the unchanged tree and configuration; the
\* first run's display lines are kept for comparison.
Rerun ==
    /\ pc \in {"rendered", "done"}
    /\ run = 1
    /\ run' = 2
    /\ firstLines' = lines
    /\ pc' = "main"
    /\ UNCHANGED <<config, _GITIGNORE, _EXCLUDES, stack, lines, lineOf,
                   descended, reports, render, compress>>

\* Every configuration without overrides, in both listing modes.
InitRerun == InitWith(BOOLEAN, {<<>>})
NextRerun == Next \/ Rerun
SpecRerun == InitRerun /\ [][NextRerun]_vars

\* ------------------------------------------- _compress_path on its own
\* The relative paths of up to MaxSegments segments, each d or .h.
RECURSIVE PathsOfLen(_)
PathsOfLen(n) ==
    IF n = 0 THEN {<<>>}
    ELSE {Append(p, m) : p \in PathsOfLen(n - 1), m \in {n_d, n_doth}}
CompressPaths == UNION {PathsOfLen(n) : n \in 1..MaxSegments}
\* The arguments: rel + "/" for each path, and "/" for the root's "" + "/".
CompressArgs == {Key(p) : p \in CompressPaths} \cup {<<"/">>}

InitCompress ==
    /\ max_depth = 0
    /\ only_dirs = FALSE
    /\ case_sensitive_sort = TRUE
    /\ list_dirs_first = TRUE
    /\ show_hidden = FALSE
    /\ exclude_patterns = <<>>
    /\ settings_override = <<>>
    /\ gitignore_file = <<>>
    /\ _GITIGNORE = <<>>
    /\ _EXCLUDES = <<>>
    /\ pc = "compress"
    /\ stack = <<>>
    /\ lines = <<>>
    /\ lineOf = <<>>
    /\ descended = {}
    /\ _depth_cutoffs = <<>>
    /\ _rule_excluded_candidates = <<>>
    /\ depth_pruned = <<>>
    /\ rule_excluded = <<>>
    /\ depth_limit_value = None
    /\ run = 1
    /\ firstLines = <<>>
    /\ dp_report = NoReport
    /\ re_report = NoReport
    /\ compress_arg \in CompressArgs
    /\ compress_ret = <<>>

\* display_path = _compress_path(rel)
Compress ==
    /\ pc = "compress"
    /\ compress_ret' = _compress_path(compress_arg)
    /\ pc' = "compressed"
    /\ UNCHANGED <<config, _GITIGNORE, _EXCLUDES, stack, lines, lineOf,
                   descended, reports, run, firstLines, render, compress_arg>>

NextCompress == Compress
SpecCompress == InitCompress /\ [][NextCompress]_vars

\* ----------------------------------------------------------------- claims
Entries == Nodes \ {<<>>}
Dirs == {p \in Entries : RealDir(p)}
WalkOver == pc \in {"walked", "reported", "rendered", "done"}
\* p has a display line.
Displayed(p) == \E i \in DOMAIN lineOf : lineOf[i] = p
\* p was listed: the walk descended into its directory.
Listed(p) == ParentOf(p) \in descended
FirstOverride(p) == _override_for(p, _to_posix_rel(p), is_dir(p))
HiddenPolicyPasses(p) == ~_is_hidden(p) \/ show_hidden
MatchesExcludes(p) ==
    _matches_any(NameOf(p), _to_posix_rel(p), exclude_patterns \o _read_gitignore,
                 is_dir(p))
CutoffKeys == {_depth_cutoffs[i][1] : i \in DOMAIN _depth_cutoffs}

MatchesGitignore(p) ==
    _matches_any(NameOf(p), _to_posix_rel(p), _read_gitignore, is_dir(p))
MatchesExclusionList(p) ==
    _matches_any(NameOf(p), _to_posix_rel(p), exclude_patterns, is_dir(p))
\* q and every directory between d and q pass the visibility rules.
VisibleBelow(q, d) ==
    \A k \in (Len(d) + 1)..Len(q) :
        LET a == SubSeq(q, 1, k)
        IN  VisibleEntry(a) /\ (k < Len(q) => RealDir(a))

\* C1 as stated: an entry whose name or relative path matches the pattern
\* of any configured override of depth -1 has no display line.
C1_AnyMinusOne ==
    \A p \in Entries :
        (\E i \in DOMAIN settings_override :
            /\ settings_override[i].depth = -1
            /\ _matches_any(NameOf(p), _to_posix_rel(p),
                            <<settings_override[i].pattern>>, FALSE))
        => ~Displayed(p)

\* C1 (amended): an entry other than the root whose first matching override,
\* in configured order, has depth -1 has no display line, whatever the
\* hidden and exclusion settings.
C1_FirstMinusOneAbsent ==
    \A p \in Entries : FirstOverride(p) = Some(-1) => ~Displayed(p)

\* The walk is over, and an entry it listed that passes the hidden policy and
\* matches no exclusion has a first override of depth -1.
C1_Witness ==
    /\ pc = "walked"
    /\ \E p \in Entries :
        /\ Listed(p)
        /\ FirstOverride(p) = Some(-1)
        /\ HiddenPolicyPasses(p)
        /\ ~MatchesExcludes(p)
        /\ ~Displayed(p)

\* C2: a listed entry that passes the hidden policy, matches the merged
\* exclusion set and has a first matching override of depth >= 0 has a
\* display line (a file: when only_dirs is off).
C2_ResurrectedVisible ==
    WalkOver =>
        \A p \in Entries :
            ( /\ Listed(p)
              /\ HiddenPolicyPasses(p)
              /\ MatchesExcludes(p)
              /\ FirstOverride(p) # None
              /\ Val(FirstOverride(p)) >= 0
              /\ (is_file(p) => ~only_dirs) )
            => Displayed(p)

\* The walk is over and displayed an excluded directory and an excluded
\* file, neither hidden, that an override of depth >= 0 resurrected.
C2_Witness ==
    /\ pc = "walked"
    /\ \E p, q \in Entries :
        /\ RealDir(p) /\ is_file(q)
        /\ \A e \in {p, q} :
            /\ ~_is_hidden(e)
            /\ MatchesExcludes(e)
            /\ FirstOverride(e) # None
            /\ Val(FirstOverride(e)) >= 0
            /\ Displayed(e)

\* C3 as stated: beneath a displayed directory with override depth n >= 1,
\* none of whose descendants matches an override, entries are displayed at
\* most n levels down and a directory n levels down is not descended into.
C3_OverrideBudgetCounted ==
    WalkOver =>
        \A d \in Dirs :
            ( /\ Displayed(d)
              /\ FirstOverride(d) # None
              /\ Val(FirstOverride(d)) >= 1
              /\ \A q \in Entries : Beneath(q, d) => FirstOverride(q) = None )
            => \A q \in Entries :
                  Beneath(q, d) =>
                    /\ Displayed(q) => Len(q) - Len(d) <= Val(FirstOverride(d))
                    /\ q \in descended => Len(q) - Len(d) < Val(FirstOverride(d))

\* C4 as stated: beneath a displayed directory with override depth 0 every
\* visible descendant has a display line, and no depth cutoff is staged for
\* the directory or beneath it.
C4_OverrideZeroUnlimited ==
    WalkOver =>
        \A d \in Dirs :
            (Displayed(d) /\ FirstOverride(d) = Some(0))
            => /\ Key(d) \notin CutoffKeys
               /\ \A q \in Entries :
                    Beneath(q, d) =>
                      /\ Key(q) \notin CutoffKeys
                      /\ VisibleBelow(q, d) => Displayed(q)

\* The directories displayed but not descended into that no override matches:
\* those the global depth budget alone stopped.
CutDirs ==
    {d \in Dirs : Displayed(d) /\ d \notin descended /\ FirstOverride(d) = None}
RecordOk(d) ==
    /\ DictHas(depth_pruned, Key(d))
    /\ LET r == DictGet(depth_pruned, Key(d))
       IN  r[2] = r[1] - Len(d) /\ r[2] >= 1
HasVisibleSubdir(d) ==
    \E c \in ChildrenOf(d) : RealDir(c) /\ _is_visible(c, _to_posix_rel(c))

\* C5 as stated: with max_depth >= 1, after the reports are computed every
\* directory the global depth budget alone stopped has a depth-pruned
\* record with skippedLevels = totalAbsoluteDepth - cutoffAbsoluteDepth >= 1.
C5_EveryCutoffRecorded ==
    (pc = "reported" /\ max_depth >= 1) => \A d \in CutDirs : RecordOk(d)

\* C5 (amended): with max_depth >= 1, after the reports are computed a
\* directory the global depth budget alone stopped has a depth-pruned
\* record exactly when it holds a visible directory, and the record then has
\* skippedLevels = totalAbsoluteDepth - cutoffAbsoluteDepth >= 1.
C5_CutoffRecordedIfDeeper ==
    (pc = "reported" /\ max_depth >= 1) =>
        \A d \in CutDirs :
            /\ HasVisibleSubdir(d) <=> DictHas(depth_pruned, Key(d))
            /\ HasVisibleSubdir(d) => RecordOk(d)

\* The reports are computed: one cut-off directory has its record, another,
\* holding no visible directory, has none.
C5_Witness ==
    /\ pc = "reported"
    /\ max_depth >= 1
    /\ \E d, e \in CutDirs :
        /\ RecordOk(d)
        /\ ~HasVisibleSubdir(e)
        /\ ~DictHas(depth_pruned, Key(e))

\* C6 as stated: a directory the walk descended into has no depth-pruned and
\* no rule-excluded record, and of descended, stopped by an override, stopped
\* by the global depth limit and recorded as excluded by rule at most one
\* holds of a directory.
C6_Exclusive ==
    pc = "reported" =>
        \A d \in Dirs :
            LET desc == d \in descended
                cut == Key(d) \in CutoffKeys
                byov == Displayed(d) /\ ~desc /\ ~cut
                excl == DictHas(rule_excluded, Key(d))
            IN  /\ desc => ~DictHas(depth_pruned, Key(d)) /\ ~excl
                /\ Cardinality({x \in {<<1, desc>>, <<2, cut>>, <<3, byov>>,
                                       <<4, excl>>} : x[2]}) <= 1

\* C7 as stated: without overrides max_depth = k >= 1 displays no entry k or
\* more levels below the root (k = 1: the root line alone), and k = 0
\* displays every level.
C7_LevelsCountRoot ==
    (WalkOver /\ settings_override = <<>>) =>
        /\ max_depth >= 1 => \A p \in Entries : Displayed(p) => Len(p) < max_depth
        /\ max_depth = 0 => \A p \in Entries : VisibleBelow(p, <<>>) => Displayed(p)

\* The reasons of C8 in the order stated.
StatedReason(d) ==
    IF _is_hidden(d) /\ ~show_hidden THEN R_HIDDEN
    ELSE IF MatchesGitignore(d) THEN R_GITIGNORE
    ELSE IF MatchesExclusionList(d) THEN R_EXCLUSION
    ELSE R_OVERRIDE

\* C8 as stated: the reason staged for a directory is the first that applies
\* of HiddenPolicy, IgnoreList, ExclusionList, Override.
C8_OverrideLast ==
    \A i \in DOMAIN _rule_excluded_candidates :
        _rule_excluded_candidates[i][2] =
            StatedReason(PathOfKey(_rule_excluded_candidates[i][1]))

\* C8 (amended): the reason staged for a directory is Override exactly when
\* its first matching override has depth -1, whatever else applies;
\* otherwise it is the first that applies of HiddenPolicy (hidden and not
\* shown), IgnoreList (matches an ignore-file pattern and is not a shown
\* hidden directory), ExclusionList (matches an explicit exclusion pattern).
C8_OverrideFirst ==
    \A i \in DOMAIN _rule_excluded_candidates :
        LET d == PathOfKey(_rule_excluded_candidates[i][1])
            r == _rule_excluded_candidates[i][2]
            hide == _is_hidden(d) /\ ~show_hidden
            ignore == ~_is_hidden(d) /\ MatchesGitignore(d)
        IN  /\ d \in Dirs
            /\ r = R_OVERRIDE <=> FirstOverride(d) = Some(-1)
            /\ FirstOverride(d) # Some(-1) =>
                /\ r = R_HIDDEN <=> hide
                /\ r = R_GITIGNORE <=> (~hide /\ ignore)
                /\ r = R_EXCLUSION <=> (~hide /\ ~ignore /\ MatchesExclusionList(d))

\* A directory is staged with Override although it is hidden and not shown,
\* and another although it matches an ignore-file pattern.
C8_Witness ==
    /\ \E i \in DOMAIN _rule_excluded_candidates :
        LET d == PathOfKey(_rule_excluded_candidates[i][1])
        IN  /\ _rule_excluded_candidates[i][2] = R_OVERRIDE
            /\ _is_hidden(d) /\ ~show_hidden
    /\ \E i \in DOMAIN _rule_excluded_candidates :
        LET d == PathOfKey(_rule_excluded_candidates[i][1])
        IN  /\ _rule_excluded_candidates[i][2] = R_OVERRIDE
            /\ ~_is_hidden(d) /\ MatchesGitignore(d)

\* C9 as stated: with hidden entries shown, a hidden entry that matches an
\* explicit exclusion pattern and has no override of depth >= 0 is not
\* displayed, and one that matches ignore-file patterns only and has no
\* override of depth -1 is.
C9_ExplicitStillApplies ==
    (WalkOver /\ show_hidden) =>
        \A p \in Entries :
            (_is_hidden(p) /\ Listed(p)) =>
                /\ ( /\ MatchesExclusionList(p)
                     /\ ~(FirstOverride(p) # None /\ Val(FirstOverride(p)) >= 0) )
                   => ~Displayed(p)
                /\ ( /\ MatchesGitignore(p)
                     /\ ~MatchesExclusionList(p)
                     /\ FirstOverride(p) # Some(-1) )
                   => Displayed(p)

\* C10 as stated: a second walk of the unchanged tree under the unchanged
\* configuration, which differs only in the order the file system lists
\* each directory's children, produces the same display lines.
C10_SameLines ==
    (run = 2 /\ WalkOver) => lines = firstLines

\* The sum, over the records keyed by keys, of what the scan of the record's
\* directory returns at position k (2: folders, 3: files).
RECURSIVE ScanSum(_, _)
ScanSum(keys, k) ==
    IF keys = {} THEN 0
    ELSE LET x == CHOOSE y \in keys : TRUE
         IN  _scan_stats(PathOfKey(x), depth_limit_value)[k]
             + ScanSum(keys \ {x}, k)
KeysOf(d) == {d[i][1] : i \in DOMAIN d}

Scanned ==
    {PathOfKey(k) : k \in CutoffKeys \cup KeysOf(rule_excluded)}
\* The folders and files of the visible subtree beneath d: those the scan
\* may count.
VisibleSubtree(d) ==
    {q \in Entries :
        /\ Beneath(q, d)
        /\ RealDir(q) \/ is_file(q)
        /\ \A k \in (Len(d) + 1)..Len(q) :
              LET a == SubSeq(q, 1, k)
              IN  _is_visible(a, _to_posix_rel(a)) /\ (k < Len(q) => RealDir(a))}

\* C12 as stated: the scan with limit k >= 0 returns a max_relative_depth of
\* at most k and counts no folder or file more than k levels below its
\* start; with limit None it counts the whole visible subtree.
C12_ScanWithinLimit ==
    pc = "reported" =>
        \A d \in Scanned :
            LET st == ScanFrom(d, depth_limit_value)
            IN  IF depth_limit_value = None
                THEN st.counted = VisibleSubtree(d)
                ELSE /\ st.max_rel_depth <= Val(depth_limit_value)
                     /\ \A q \in st.counted :
                           Len(q) - Len(d) <= Val(depth_limit_value)

\* s holds two consecutive slashes.
DoubleSlash(s) == \E i \in 1..(Len(s) - 1) : s[i] = "/" /\ s[i + 1] = "/"
\* The marker of n omitted segments.
Marker(n) == <<".", ".", ".", "(">> \o Str(n) \o <<")", ".", ".", ".">>

\* C13: _compress_path of a relative path with its trailing slash returns
\* the path unchanged when it has one to five segments; when it has m > 5
\* it returns the first three segments, a marker carrying m - 5 and the
\* last two segments, ending in a slash; no result holds two consecutive
\* slashes.
C13_Compression ==
    (pc = "compressed" /\ compress_arg # <<"/">>) =>
        LET p == CHOOSE q \in CompressPaths : Key(q) = compress_arg
            m == Len(p)
        IN  /\ m <= 5 => compress_ret = compress_arg
            /\ m > 5 =>
                 /\ compress_ret[Len(compress_ret)] = "/"
                 /\ split_slash(compress_ret, <<>>) =
                        <<p[1], p[2], p[3], Marker(m - 5), p[m - 1], p[m], <<>>>>
            /\ ~DoubleSlash(compress_ret)

\* A path of more than six segments has been compressed.
C13_Witness ==
    /\ pc = "compressed"
    /\ Len(split_slash(rstrip_slash(compress_arg), <<>>)) > 6
    /\ compress_ret # compress_arg
    /\ ~DoubleSlash(compress_ret)

\* The directories a rule dropped from the tree: listed by the walk, not
\* symlinks, and not visible.
Dropped ==
    {d \in Dirs : Listed(d) /\ ~_is_visible(d, _to_posix_rel(d))}

\* C14: after the walk every directory that is not a symlink, is a child of
\* a directory the walk descended into and is not visible has no display
\* line and has a rule-excluded candidate keyed by its relative path.
C14_DroppedIsStaged ==
    WalkOver =>
        \A d \in Dropped :
            /\ ~Displayed(d)
            /\ DictHas(_rule_excluded_candidates, Key(d))
            /\ DictGet(_rule_excluded_candidates, Key(d)) # NoReason

\* The walk is over and has dropped a hidden directory and, beneath a
\* directory it descended into, a directory an exclusion matches; both are
\* staged.
C14_Witness ==
    /\ pc = "walked"
    /\ \E a, b \in Dropped :
        /\ _is_hidden(a) /\ ~show_hidden
        /\ ~_is_hidden(b) /\ MatchesExcludes(b) /\ FirstOverride(b) = None
        /\ Len(b) > 1
        /\ \A d \in {a, b} : DictHas(_rule_excluded_candidates, Key(d))

\* The folders and files the scan of the directory keyed by k counts.
CountedFor(k) == ScanFrom(PathOfKey(k), depth_limit_value).counted

\* C15 as stated: the scans of two different rule-excluded records share no
\* counted folder or file, so the footer's Skipped Total counts each folder
\* and each file of the tree at most once.
C15_NoDoubleCounting ==
    pc = "rendered" =>
        /\ \A i, j \in DOMAIN rule_excluded :
              i # j => CountedFor(rule_excluded[i][1])
                         \cap CountedFor(rule_excluded[j][1]) = {}
        /\ re_report.kind = "table" =>
              /\ re_report.folders =
                    _fmt_int(Cardinality(UNION {CountedFor(k) \cap Dirs :
                                                  k \in KeysOf(rule_excluded)}))
              /\ re_report.files =
                    _fmt_int(Cardinality(UNION {CountedFor(k) \ Dirs :
                                                  k \in KeysOf(rule_excluded)}))

====
